---- MODULE Spec2Model ----
(***************************************************************************)
(* Model of buildSrc/transupdate.py: the resource-set resolver             *)
(* (ResourceInfo), the change detector and snapshot store, and the push /  *)
(* pull / cksumfile flows of TransUpdate driven by main().                 *)
(*                                                                         *)
(* Strings are sequences of one-character strings, so that the filename    *)
(* conversions (split, splitext, join, %-substitution, glob and regex      *)
(* matching, prefix stripping, sorting) are computed as the code computes  *)
(* them.  None (JSON null) is the distinguished value Null.                *)
(***************************************************************************)
EXTENDS Integers, Sequences, FiniteSets, TLC

VARIABLES
    res_spec,      \* ResourceInfo._res_spec: [resources, langs]
    fs_dirs,       \* the directories on disk: directory path -> os.listdir result
    fs_hash,       \* the files on disk: full path -> digest of the contents
    list_file,     \* the lines of the file named by -fl (explicit list mode)
    cksum_store,   \* the snapshot files: hash filename -> NoFile or mapping
    args,          \* the parsed command line
    remote,        \* the translation service: [exists, names]
    pc,            \* position of the invocation
    file_list,     \* resolver output: paths
    tx_res_list,   \* resolver output: resource names
    tx_lang_list,  \* resolver output: transifex language codes
    res_files,     \* upload_source_files: the filtered upload list
    curr_res_names,\* upload_source_files: names listed before the loop
    idx,           \* loop position in res_files / file_list
    changed,       \* last result of _get_changed_and_new_resources
    calls,         \* the remote calls issued so far, in order
    io,            \* the file I/O done by the flow so far, in order
    error,         \* the message of the exception raised, "" when none
    exit_val       \* the exit status, NoExit while running

vars == <<res_spec, fs_dirs, fs_hash, list_file, cksum_store, args, remote, pc,
          file_list, tx_res_list, tx_lang_list, res_files, curr_res_names, idx,
          changed, calls, io, error, exit_val>>

----------------------------------------------------------------------------
(* Program constants *)

\* The command line values of the model: -c, -rn, -ckf, -gb
ClonePath == <<"c">>
RepoName == <<"r">>
CksumFolder == <<"k">>
GitBranch == <<"b">>

\* The directory the wildcard rules of the model read
ResDir == <<"c", "/", "p">>

\* The digests a file's contents can have
Hashes == {"H1", "H2"}

EXIT_OK == 0
EXIT_ERROR == 1
EXIT_OK_NOCHANGES == 100

MODE_UP == "up"
MODE_DOWN == "down"
MODE_CKSUMFILE == "cksumfile"

Null == <<"None">>
NoExit == -1

----------------------------------------------------------------------------
(* Strings *)

\* The characters of the model in code point order (Python compares str by byte).
Chars == <<"%", "*", "-", ".", "/", "?", "N", "_",
           "a", "b", "c", "d", "e", "f", "g", "h", "i", "j", "k", "l", "m",
           "n", "o", "p", "q", "r", "s", "t", "u", "v", "w", "x", "y", "z">>

Ord(c) == CHOOSE i \in 1..Len(Chars) : Chars[i] = c

Range(s) == {s[i] : i \in 1..Len(s)}

Min(a, b) == IF a < b THEN a ELSE b
Max(a, b) == IF a > b THEN a ELSE b

\* Python's str < str.
StrLess(a, b) ==
    \/ /\ Len(a) < Len(b)
       /\ \A i \in 1..Len(a) : a[i] = b[i]
    \/ \E k \in 1..Min(Len(a), Len(b)) :
          /\ \A i \in 1..(k - 1) : a[i] = b[i]
          /\ Ord(a[k]) < Ord(b[k])

\* s[n:] for n >= 0, and s[:-n] for n > 0.
DropFirst(s, n) == SubSeq(s, Min(n, Len(s)) + 1, Len(s))
DropLast(s, n) == SubSeq(s, 1, Max(Len(s) - n, 0))

\* s.rfind(c) as a 1-based position, 0 when c does not occur.
RFind(s, c) ==
    IF \E i \in 1..Len(s) : s[i] = c
    THEN CHOOSE i \in 1..Len(s) : s[i] = c /\ \A j \in (i + 1)..Len(s) : s[j] # c
    ELSE 0

\* Python truthiness of a string-or-None value.
Truthy(v) == v # Null /\ v # <<>>

\* head.rstrip("/")
RECURSIVE RStripSlash(_)
RStripSlash(s) ==
    IF s # <<>> /\ s[Len(s)] = "/" THEN RStripSlash(SubSeq(s, 1, Len(s) - 1)) ELSE s

\* os.path.split (posixpath): <<head, tail>>, for head = p[:i] and tail = p[i:]
\* at i = p.rfind("/") + 1
SplitHeadTail(head, tail) ==
    IF head # <<>> /\ \E k \in 1..Len(head) : head[k] # "/"
    THEN <<RStripSlash(head), tail>>
    ELSE <<head, tail>>

SplitAt(p, i) == SplitHeadTail(SubSeq(p, 1, i), SubSeq(p, i + 1, Len(p)))

PathSplit(p) == SplitAt(p, RFind(p, "/"))

Basename(p) == PathSplit(p)[2]
Dirname(p) == PathSplit(p)[1]

\* os.path.splitext (genericpath._splitext): <<root, ext>>; leading dots of
\* the last component are not an extension.
SplitExtAt(p, sepIndex, dotIndex) ==
    IF /\ dotIndex > sepIndex
       /\ \E k \in (sepIndex + 1)..(dotIndex - 1) : p[k] # "."
    THEN <<SubSeq(p, 1, dotIndex - 1), SubSeq(p, dotIndex, Len(p))>>
    ELSE <<p, <<>>>>

SplitExt(p) == SplitExtAt(p, RFind(p, "/"), RFind(p, "."))

\* os.path.join(a, b) (posixpath)
PathJoin(a, b) ==
    IF b # <<>> /\ b[1] = "/" THEN b
    ELSE IF a = <<>> \/ a[Len(a)] = "/" THEN a \o b
    ELSE a \o <<"/">> \o b

\* "%s" in s
HasPlaceholder(s) == \E i \in 1..(Len(s) - 1) : s[i] = "%" /\ s[i + 1] = "s"

\* template % value, for a template holding the placeholder once, at i
SubstAt(template, value, i) ==
    SubSeq(template, 1, i - 1) \o value \o SubSeq(template, i + 2, Len(template))

Subst(template, value) ==
    SubstAt(template, value,
            CHOOSE k \in 1..(Len(template) - 1) : template[k] = "%" /\ template[k + 1] = "s")

\* fnmatch.fnmatch(name, pat): "*" any run of characters, "?" any one
\* character, every other character of the model's alphabet itself.
RECURSIVE FnMatch(_, _)
FnMatch(name, pat) ==
    IF pat = <<>> THEN name = <<>>
    ELSE IF Head(pat) = "*"
         THEN FnMatch(name, Tail(pat)) \/ (name # <<>> /\ FnMatch(Tail(name), pat))
    ELSE IF Head(pat) = "?"
         THEN name # <<>> /\ FnMatch(Tail(name), Tail(pat))
    ELSE name # <<>> /\ Head(name) = Head(pat) /\ FnMatch(Tail(name), Tail(pat))

\* One pattern character of a compiled regular expression against one
\* subject character: "." is the regex wildcard, the other characters of the
\* model's alphabet that reach a pattern are literals.
ReAtom(p, c) == p = "." \/ p = c

\* A metacharacter-per-character pattern against a whole string.
ReSeq(pat, s) == Len(pat) = Len(s) /\ \A i \in 1..Len(s) : ReAtom(pat[i], s[i])

\* re.compile(".*" + lang_prefix + "(" + "|".join(lang_exclude) + ")$").match(s)
ForeignLangMatch(lang_prefix, lang_exclude, s) ==
    \E k \in 1..Len(lang_exclude) :
        LET code == lang_exclude[k]
            n == Len(lang_prefix) + Len(code)
        IN  /\ n <= Len(s)
            /\ ReSeq(lang_prefix \o code, SubSeq(s, Len(s) - n + 1, Len(s)))

----------------------------------------------------------------------------
(* ResourceInfo *)

\* A resource rule is item = <<pattern, prefix or separator, marker or Null>>;
\* a language is lang = <<transifex code, native code or Null>>, the single
\* (key, value) of the JSON object: lang.items()[0].
TxLang(lang) == lang[1]

\* Mutant: the transifex code is used where the native code belongs
NativeLang_alwaysTx(lang) == lang[1]

NativeLang(lang) == IF Truthy(lang[2]) THEN lang[2] ELSE lang[1]

\* "%s" % None is "None"
StrOf(v) == IF v = Null THEN <<"N", "o", "n", "e">> ELSE v

PigLatin == <<"p", "i", "g", "_", "l", "a", "t", "i", "n">>

\* ResourceInfo.__init__: self._lang_exclude
LangExclude(spec) == <<PigLatin>> \o [i \in 1..Len(spec.langs) |-> TxLang(spec.langs[i])]

\* The two tests of _get_english_files on one filename of the listing
IsEnglishFile(filename, filespec, lang_prefix, lang_exclude) ==
    /\ FnMatch(filename, filespec)
    /\ ~ForeignLangMatch(lang_prefix, lang_exclude, SplitExt(filename)[1])

\* The loop of _get_english_files over os.listdir(path)
RECURSIVE EnglishOf(_, _, _, _, _)
EnglishOf(listing, path, filespec, lang_prefix, lang_exclude) ==
    IF listing = <<>> THEN <<>>
    ELSE (IF IsEnglishFile(Head(listing), filespec, lang_prefix, lang_exclude)
          THEN <<PathJoin(path, Head(listing))>> ELSE <<>>)
         \o EnglishOf(Tail(listing), path, filespec, lang_prefix, lang_exclude)

\* _get_english_files after path, filespec = os.path.split(full_filespec)
EnglishIn(dirs, lang_exclude, path, filespec, lang_prefix) ==
    EnglishOf(dirs[path], path, filespec, lang_prefix, lang_exclude)

\* ResourceInfo._get_english_files, over the directories dirs
GetEnglishFiles(dirs, lang_exclude, full_filespec, lang_prefix) ==
    EnglishIn(dirs, lang_exclude, Dirname(full_filespec), Basename(full_filespec),
              lang_prefix)

\* get(): filename_english from filename_only and ext
FilenameEnglish(item, filename_only, ext) ==
    IF Truthy(item[3]) THEN filename_only \o item[2] \o item[3] \o ext
    ELSE filename_only \o ext

\* The glob of a wildcard rule: full_filespec of get()
FullFilespec(src_folder, item) ==
    PathJoin(src_folder,
             PathJoin(Dirname(item[1]),
                      FilenameEnglish(item, SplitExt(Basename(item[1]))[1],
                                      SplitExt(Basename(item[1]))[2])))

IsTemplated(item) == HasPlaceholder(Dirname(item[1]))

\* get(): lang_file from the parts of one English file of a wildcard rule
LangFileOf(item, native_lang, path, filename_only, ext) ==
    IF Truthy(item[3])
    THEN PathJoin(path, DropLast(filename_only, Len(item[3])) \o native_lang \o ext)
    ELSE PathJoin(path, filename_only \o item[2] \o native_lang \o ext)

\* The translated filename of one English file of a wildcard rule
LangFile(item, lang, english_file) ==
    LangFileOf(item, NativeLang(lang), Dirname(english_file),
               SplitExt(Basename(english_file))[1], SplitExt(Basename(english_file))[2])

Triple(f, r, l) == [file_list |-> f, tx_res_list |-> r, tx_lang_list |-> l]

\* get(), templated rule: the English file, or one entry per language
TemplatedItem(src_folder, langs, item, english_mode) ==
    IF english_mode
    THEN Triple(<<PathJoin(src_folder, Subst(item[1], StrOf(item[3])))>>, <<>>, <<>>)
    ELSE Triple([i \in 1..Len(langs) |->
                    PathJoin(src_folder, Subst(item[1], item[2] \o NativeLang(langs[i])))],
                [i \in 1..Len(langs) |-> Basename(item[1])],
                [i \in 1..Len(langs) |-> TxLang(langs[i])])

\* get(), wildcard rule: the English files, or one entry per language and
\* English file, the languages in the outer loop
WildcardItem(langs, item, english_mode, english_files, n) ==
    IF english_mode
    THEN Triple(english_files, <<>>, <<>>)
    ELSE Triple([j \in 1..(Len(langs) * n) |->
                    LangFile(item, langs[((j - 1) \div n) + 1],
                             english_files[((j - 1) % n) + 1])],
                [j \in 1..(Len(langs) * n) |-> Basename(english_files[((j - 1) % n) + 1])],
                [j \in 1..(Len(langs) * n) |-> TxLang(langs[((j - 1) \div n) + 1])])

WildcardItemOf(langs, item, english_mode, english_files) ==
    WildcardItem(langs, item, english_mode, english_files, Len(english_files))

\* One iteration of the loop of get() over _res_spec['resources']
GetItem(src_folder, spec, dirs, item, english_mode) ==
    IF IsTemplated(item)
    THEN TemplatedItem(src_folder, spec.langs, item, english_mode)
    ELSE WildcardItemOf(spec.langs, item, english_mode,
                        GetEnglishFiles(dirs, LangExclude(spec),
                                        FullFilespec(src_folder, item), item[2]))

TripleCat(a, b) ==
    Triple(a.file_list \o b.file_list, a.tx_res_list \o b.tx_res_list,
           a.tx_lang_list \o b.tx_lang_list)

RECURSIVE GetFrom(_, _, _, _, _)
GetFrom(src_folder, spec, dirs, english_mode, k) ==
    IF k > Len(spec.resources) THEN Triple(<<>>, <<>>, <<>>)
    ELSE TripleCat(GetItem(src_folder, spec, dirs, spec.resources[k], english_mode),
                   GetFrom(src_folder, spec, dirs, english_mode, k + 1))

\* ResourceInfo.get
Get(src_folder, spec, dirs, english_mode) == GetFrom(src_folder, spec, dirs, english_mode, 1)

\* The directories get() hands to os.listdir, in order: one per wildcard rule
RECURSIVE ListedDirs(_, _, _)
ListedDirs(src_folder, spec, k) ==
    IF k > Len(spec.resources) THEN <<>>
    ELSE (IF IsTemplated(spec.resources[k]) THEN <<>>
          ELSE <<Dirname(FullFilespec(src_folder, spec.resources[k]))>>)
         \o ListedDirs(src_folder, spec, k + 1)

\* os.listdir raises OSError for a directory that does not exist
GetRaises(src_folder, spec, dirs) ==
    Range(ListedDirs(src_folder, spec, 1)) \ DOMAIN dirs # {}

----------------------------------------------------------------------------
(* Change detector and snapshot store *)

\* file[len(download_path)+1:]
RelPath(download_path, file) == DropFirst(file, Len(download_path) + 1)

\* _compute_file_hash raises TransUpdateError for a file that does not exist
HashRaises(hashes, files) == \E i \in 1..Len(files) : files[i] \notin DOMAIN hashes

\* _compute_current_hashinfo: a dict, so a later entry of file_list replaces
\* an earlier one with the same key
ComputeCurrentHashinfo(hashes, download_path, files) ==
    [k \in {RelPath(download_path, files[i]) : i \in 1..Len(files)} |->
        LET last == CHOOSE i \in 1..Len(files) :
                       /\ RelPath(download_path, files[i]) = k
                       /\ \A j \in (i + 1)..Len(files) : RelPath(download_path, files[j]) # k
        IN  hashes[files[last]]]

Suffix_english == <<"e", "n", "g", "l", "i", "s", "h">>
Suffix_none == <<>>

\* _get_hash_filename
GetHashFilename(cksum_folder, git_branch, repo_name, suffix) ==
    PathJoin(cksum_folder,
             git_branch \o <<"_">> \o repo_name
                 \o (IF suffix # <<>> THEN <<"_">> \o suffix ELSE suffix)
                 \o <<".", "j", "s", "o", "n">>)

HashFile_english == GetHashFilename(CksumFolder, GitBranch, RepoName, Suffix_english)
HashFile_none == GetHashFilename(CksumFolder, GitBranch, RepoName, Suffix_none)

\* A snapshot file is [kind, map]: kind "json" holds the mapping map, kind
\* "nofile" is no file and kind "corrupt" a file json.load rejects.
NoSnapshot == [kind |-> "nofile", map |-> <<>>]
CorruptSnapshot == [kind |-> "corrupt", map |-> <<>>]
JsonSnapshot(m) == [kind |-> "json", map |-> m]

\* _read_previous_hashinfo: every exception gives {}
ReadPreviousHashinfo(store, hash_filename) ==
    IF hash_filename \in DOMAIN store /\ store[hash_filename].kind = "json"
    THEN store[hash_filename].map
    ELSE <<>>

\* list.sort() of a list of distinct strings
RECURSIVE SortedSeq(_)
SortedSeq(S) ==
    IF S = {} THEN <<>>
    ELSE LET m == CHOOSE x \in S : \A y \in S \ {x} : StrLess(x, y)
         IN  <<m>> \o SortedSeq(S \ {m})

\* Mutant: a path absent from the snapshot is not reported
IsChangedOrNew_ignoresNew(latest, previous, item) ==
    item \in DOMAIN previous /\ latest[item] # previous[item]

\* The loop of _get_changed_and_new_resources over latest_hashinfo
IsChangedOrNew(latest, previous, item) ==
    IF item \in DOMAIN previous THEN latest[item] # previous[item] ELSE TRUE

\* changed_items of _get_changed_and_new_resources after the loop and the sort
ChangedItems(latest, previous) ==
    SortedSeq({item \in DOMAIN latest : IsChangedOrNew(latest, previous, item)})

\* _get_changed_and_new_resources, for files that all exist
GetChangedAndNewResources(hashes, store, cksum_folder, git_branch, repo_name, download_path, files, suffix) ==
    IF Truthy(cksum_folder)
    THEN ChangedItems(ComputeCurrentHashinfo(hashes, download_path, files),
                      ReadPreviousHashinfo(store,
                          GetHashFilename(cksum_folder, git_branch, repo_name, suffix)))
    ELSE <<>>

----------------------------------------------------------------------------
(* TransUpdate and main(): the flows *)

\* self._transifex_i18n_type: the extensions with a Transifex format
I18nExtensions ==
    { <<"p", "o">>, <<"p", "r", "o", "p", "e", "r", "t", "i", "e", "s">>,
      <<"h", "t", "m", "l">>, <<"s", "t", "r", "i", "n", "g", "s">>,
      <<"x", "m", "l">>, <<"j", "s", "o", "n">>, <<"t", "s">> }

\* A type lookup that fails for a missing extension only
I18nTypeRaises_noExtensionOnly(full_filename) == SplitExt(full_filename)[2] = <<>>

\* _get_i18n_type raises for a filename without a known extension
I18nTypeRaises(full_filename) ==
    LET file_extension == SplitExt(full_filename)[2]
    IN  file_extension = <<>> \/ Tail(file_extension) \notin I18nExtensions

\* transifex.util.slugify: lower case, characters other than word characters,
\* blanks and hyphens removed
RECURSIVE Slugify(_)
Slugify(s) ==
    IF s = <<>> THEN <<>>
    ELSE IF Head(s) \in {".", "/", "%", "*", "?"} THEN Slugify(Tail(s))
    ELSE <<Head(s)>> \o Slugify(Tail(s))

AllStr == <<"a", "l", "l">>

\* One remote call: existed tells whether a resource called name was on the
\* service when the call was issued
Call(op, file, name, lang) ==
    [op |-> op, file |-> file, name |-> name, lang |-> lang,
     existed |-> name \in remote.names]

IoEvent(op, path) == [op |-> op, path |-> path]

\* The index of the first element of s outside D, Len(s) + 1 when there is none
FirstOutside(s, D) ==
    IF \E i \in 1..Len(s) : s[i] \notin D
    THEN CHOOSE i \in 1..Len(s) : s[i] \notin D /\ \A j \in 1..(i - 1) : s[j] \in D
    ELSE Len(s) + 1

\* The os.listdir calls of get(), up to and with the first that raises
IoListdir ==
    LET d == ListedDirs(ClonePath, res_spec, 1)
        n == Min(FirstOutside(d, DOMAIN fs_dirs), Len(d))
    IN  [k \in 1..n |-> IoEvent("listdir", d[k])]

\* The files _compute_current_hashinfo opens, up to and with the first that raises
IoHash(files) ==
    LET n == Min(FirstOutside(files, DOMAIN fs_hash), Len(files))
    IN  [k \in 1..n |-> IoEvent("hash", files[k])]

\* The exception reaches the handler of __main__: exit status EXIT_ERROR
Raise(msg) ==
    /\ pc' = "done"
    /\ error' = msg
    /\ exit_val' = EXIT_ERROR

Return(val) ==
    /\ pc' = "done"
    /\ error' = ""
    /\ exit_val' = val

\* args_check without the test for both filter modes
ArgsError_allowsBoth ==
    IF args.mode = MODE_UP /\ ~Truthy(args.filelist) /\ ~args.filehash
    THEN "must supply one of either -fl or -fh"
    ELSE IF (args.mode # MODE_UP \/ args.filehash) /\ ~Truthy(args.cksumfolder)
         THEN "must supply -ckf"
    ELSE IF (args.mode # MODE_UP \/ args.filehash) /\ ~Truthy(args.gitbranch)
         THEN IF args.mode = MODE_UP THEN "must supply -gitbranch"
              ELSE "missing parameter -gb"
    ELSE IF Truthy(args.cksumfolder) /\ args.cksumfolder \notin DOMAIN fs_dirs
         THEN "-ckf folder does not exist"
    ELSE ""

\* The first complaint of args_check, "" when it has none
ArgsError ==
    LET mode_error ==
            IF args.mode = MODE_UP
            THEN IF \/ (~Truthy(args.filelist) /\ ~args.filehash)
                    \/ (Truthy(args.filelist) /\ args.filehash)
                 THEN "must supply one of either -fl or -fh"
                 ELSE IF args.filehash /\ ~Truthy(args.cksumfolder) THEN "must supply -ckf"
                 ELSE IF args.filehash /\ ~Truthy(args.gitbranch)
                      THEN "must supply -gitbranch"
                 ELSE ""
            ELSE IF ~Truthy(args.cksumfolder) THEN "must supply -ckf"
                 ELSE IF ~Truthy(args.gitbranch) THEN "missing parameter -gb"
                 ELSE ""
    IN  IF mode_error # "" THEN mode_error
        ELSE IF Truthy(args.cksumfolder) /\ args.cksumfolder \notin DOMAIN fs_dirs
             THEN "-ckf folder does not exist"
        ELSE ""

\* args_check
ArgsCheck ==
    /\ pc = "start"
    /\ io' = io \o <<IoEvent("read_cred", <<>>)>>
                \o (IF ArgsError \in {"", "-ckf folder does not exist"}
                       /\ Truthy(args.cksumfolder)
                    THEN <<IoEvent("isdir", args.cksumfolder)>> ELSE <<>>)
    /\ IF ArgsError # ""
       THEN Raise(ArgsError) /\ UNCHANGED args
       ELSE /\ args' = [args EXCEPT !.downloadpath =
                            IF Truthy(args.downloadpath) THEN args.downloadpath
                            ELSE ClonePath]
            /\ pc' = "construct"
            /\ UNCHANGED <<error, exit_val>>
    /\ UNCHANGED <<res_spec, fs_dirs, fs_hash, list_file, cksum_store, remote,
                   file_list, tx_res_list, tx_lang_list, res_files, curr_res_names,
                   idx, changed, calls>>

\* TransUpdate.__init__ and ResourceInfo.__init__, then the dispatch of main()
Construct ==
    /\ pc = "construct"
    /\ io' = io \o <<IoEvent("read_spec", <<>>)>>
    /\ pc' = IF args.mode = MODE_UP THEN "up_slug"
             ELSE IF args.mode = MODE_DOWN THEN "down_get"
             ELSE "cksumfile"
    /\ UNCHANGED <<res_spec, fs_dirs, fs_hash, list_file, cksum_store, args, remote,
                   file_list, tx_res_list, tx_lang_list, res_files, curr_res_names,
                   idx, changed, calls, error, exit_val>>

\* _get_proj_slug, called at position at and continuing at position next:
\* the request may fail, and a project that does not exist raises
GetProjSlug(at, next) ==
    /\ pc = at
    /\ calls' = calls \o <<Call("project_exists", <<>>, <<>>, <<>>)>>
    /\ \E answered \in BOOLEAN :
          IF ~answered THEN Raise("remote request failed") /\ UNCHANGED idx
          ELSE IF ~remote.exists THEN Raise("project does not exist") /\ UNCHANGED idx
          ELSE /\ pc' = next
               /\ idx' = 1
               /\ UNCHANGED <<error, exit_val>>
    /\ UNCHANGED <<res_spec, fs_dirs, fs_hash, list_file, cksum_store, args, remote,
                   file_list, tx_res_list, tx_lang_list, res_files, curr_res_names,
                   changed, io>>

\* upload_source_files: project_slug = self._get_proj_slug()
UpGetProjSlug == GetProjSlug("up_slug", "up_list")

\* upload_source_files: curr_res_names from list_resources
UpListResources ==
    /\ pc = "up_list"
    /\ calls' = calls \o <<Call("list_resources", <<>>, <<>>, <<>>)>>
    /\ \E answered \in BOOLEAN :
          IF ~answered THEN Raise("remote request failed") /\ UNCHANGED curr_res_names
          ELSE /\ curr_res_names' = remote.names
               /\ pc' = "up_filter"
               /\ UNCHANGED <<error, exit_val>>
    /\ UNCHANGED <<res_spec, fs_dirs, fs_hash, list_file, cksum_store, args, remote,
                   file_list, tx_res_list, tx_lang_list, res_files, idx, changed, io>>

IsListed(lines, file) == \E i \in 1..Len(lines) : file = PathJoin(ClonePath, lines[i])

\* A filter that walks the resolved list and keeps the files the list names
FilterLines_resolvedOrder(lines, all_res_files) ==
    LET Listed(file) == IsListed(lines, file)
    IN  SelectSeq(all_res_files, Listed)

\* The loop of _get_filtered_upload_list over the lines of the list file
RECURSIVE FilterLines(_, _)
FilterLines(lines, all_res_files) ==
    IF lines = <<>> THEN <<>>
    ELSE LET test_file == PathJoin(ClonePath, Head(lines))
             rest == FilterLines(Tail(lines), all_res_files)
         IN  IF test_file \in Range(all_res_files) THEN <<test_file>> \o rest ELSE rest

\* _get_filtered_upload_list: res_filelist
GetFilteredUploadList(all_res_files) ==
    IF args.filelist = AllStr THEN all_res_files
    ELSE FilterLines(list_file, all_res_files)

\* _get_filtered_upload_list_by_cksum_compare: res_filelist from changed_files
ByCksumCompare(changed_files) ==
    [i \in 1..Len(changed_files) |-> PathJoin(args.downloadpath, changed_files[i])]

\* upload_source_files: the filtered upload list, in either mode
UpFilter ==
    /\ pc = "up_filter"
    /\ IF GetRaises(ClonePath, res_spec, fs_dirs)
       THEN /\ io' = io \o IoListdir
            /\ Raise("OSError: no such directory")
            /\ UNCHANGED <<file_list, res_files, changed>>
       ELSE LET all == Get(ClonePath, res_spec, fs_dirs, TRUE).file_list
            IN  /\ file_list' = all
                /\ IF args.filehash
                   THEN IF HashRaises(fs_hash, all)
                        THEN /\ io' = io \o IoListdir \o IoHash(all)
                             /\ Raise("file does not exist")
                             /\ UNCHANGED <<res_files, changed>>
                        ELSE LET changed_files ==
                                   GetChangedAndNewResources(fs_hash, cksum_store,
                                       args.cksumfolder, args.gitbranch, RepoName,
                                       args.downloadpath, all, Suffix_english)
                             IN  /\ io' = io \o IoListdir \o IoHash(all)
                                         \o <<IoEvent("read_cksum", HashFile_english)>>
                                 /\ changed' = changed_files
                                 /\ res_files' = ByCksumCompare(changed_files)
                                 /\ pc' = "up_upload"
                                 /\ UNCHANGED <<error, exit_val>>
                   ELSE /\ io' = io \o IoListdir
                                \o (IF args.filelist = AllStr THEN <<>>
                                    ELSE <<IoEvent("read_list", args.filelist)>>)
                        /\ res_files' = GetFilteredUploadList(all)
                        /\ pc' = "up_upload"
                        /\ UNCHANGED <<changed, error, exit_val>>
    /\ UNCHANGED <<res_spec, fs_dirs, fs_hash, list_file, cksum_store, args, remote,
                   tx_res_list, tx_lang_list, curr_res_names, idx, calls>>

\* upload_source_files: "if filename in curr_res_names"
UpdatesExisting(filename) == filename \in curr_res_names

\* upload_source_files: one iteration of the loop over res_files
UpUploadOne ==
    /\ pc = "up_upload"
    /\ idx <= Len(res_files)
    /\ LET res_file == res_files[idx]
           filename == Basename(res_file)
       IN  IF I18nTypeRaises(res_file)
           THEN /\ Raise("unrecognised extension in filename")
                /\ UNCHANGED <<calls, remote, idx>>
           ELSE /\ calls' = calls \o
                       <<IF UpdatesExisting(filename)
                         THEN Call("update_source_translation", res_file, filename, <<>>)
                         ELSE Call("new_resource", res_file, filename, <<>>)>>
                /\ \E answered \in BOOLEAN :
                      IF ~answered
                      THEN Raise("remote request failed") /\ UNCHANGED <<remote, idx>>
                      ELSE /\ remote' = [remote EXCEPT !.names = @ \cup {filename}]
                           /\ idx' = idx + 1
                           /\ UNCHANGED <<pc, error, exit_val>>
    /\ UNCHANGED <<res_spec, fs_dirs, fs_hash, list_file, cksum_store, args,
                   file_list, tx_res_list, tx_lang_list, res_files, curr_res_names,
                   changed, io>>

\* write_cksumfile: the new store, the I/O it does and the error it raises
\* ("" when none)
WriteCksumfileError(english_mode) ==
    IF GetRaises(ClonePath, res_spec, fs_dirs) THEN "OSError: no such directory"
    ELSE IF HashRaises(fs_hash, Get(ClonePath, res_spec, fs_dirs, english_mode).file_list)
         THEN "file does not exist"
    ELSE ""

WriteCksumfileIo(cksum_file_suffix, english_mode) ==
    IF GetRaises(ClonePath, res_spec, fs_dirs) THEN IoListdir
    ELSE LET files == Get(ClonePath, res_spec, fs_dirs, english_mode).file_list
         IN  IoListdir \o IoHash(files)
                 \o (IF HashRaises(fs_hash, files) THEN <<>>
                     ELSE <<IoEvent("write_cksum",
                                    GetHashFilename(args.cksumfolder, args.gitbranch,
                                                    RepoName, cksum_file_suffix))>>)

WriteCksumfileStore(cksum_file_suffix, english_mode) ==
    LET files == Get(ClonePath, res_spec, fs_dirs, english_mode).file_list
        latest_hashinfo == ComputeCurrentHashinfo(fs_hash, args.downloadpath, files)
        hash_filename == GetHashFilename(args.cksumfolder, args.gitbranch, RepoName,
                                         cksum_file_suffix)
    IN  [n \in DOMAIN cksum_store \cup {hash_filename} |->
            IF n = hash_filename THEN JsonSnapshot(latest_hashinfo) ELSE cksum_store[n]]

\* The snapshot update without the test of filehash
UpdatesHashes_anyMode == Len(res_files) > 0

\* upload_source_files: "if filehash and len(res_files) > 0"
UpdatesHashes == args.filehash /\ Len(res_files) > 0

\* upload_source_files after the loop: the snapshot update and the return
UpFinish ==
    /\ pc = "up_upload"
    /\ idx > Len(res_files)
    /\ IF UpdatesHashes
       THEN /\ io' = io \o WriteCksumfileIo(Suffix_english, TRUE)
            /\ IF WriteCksumfileError(TRUE) # ""
               THEN Raise(WriteCksumfileError(TRUE)) /\ UNCHANGED cksum_store
               ELSE /\ cksum_store' = WriteCksumfileStore(Suffix_english, TRUE)
                    /\ Return(EXIT_OK)
       ELSE Return(EXIT_OK) /\ UNCHANGED <<io, cksum_store>>
    /\ UNCHANGED <<res_spec, fs_dirs, fs_hash, list_file, args, remote,
                   file_list, tx_res_list, tx_lang_list, res_files, curr_res_names,
                   idx, changed, calls>>

\* process_translated_files: the translation-mode resolution
DownResolve ==
    /\ pc = "down_get"
    /\ io' = io \o IoListdir
    /\ IF GetRaises(ClonePath, res_spec, fs_dirs)
       THEN /\ Raise("OSError: no such directory")
            /\ UNCHANGED <<file_list, tx_res_list, tx_lang_list>>
       ELSE LET r == Get(ClonePath, res_spec, fs_dirs, FALSE)
            IN  /\ file_list' = r.file_list
                /\ tx_res_list' = r.tx_res_list
                /\ tx_lang_list' = r.tx_lang_list
                /\ pc' = "down_slug"
                /\ UNCHANGED <<error, exit_val>>
    /\ UNCHANGED <<res_spec, fs_dirs, fs_hash, list_file, cksum_store, args, remote,
                   res_files, curr_res_names, idx, changed, calls>>

\* _download_from_transifex: project_slug = self._get_proj_slug()
DownGetProjSlug == GetProjSlug("down_slug", "down_fetch")

\* The disk after create_path(os.path.dirname(file)) and a download into
\* file whose contents hash to h
DirsWithFile(file) ==
    LET d == Dirname(file)
        name == Basename(file)
    IN  [x \in DOMAIN fs_dirs \cup {d} |->
            IF x = d
            THEN IF d \in DOMAIN fs_dirs
                 THEN IF name \in Range(fs_dirs[d]) THEN fs_dirs[d]
                      ELSE Append(fs_dirs[d], name)
                 ELSE <<name>>
            ELSE fs_dirs[x]]

DirsWithDir(d) ==
    [x \in DOMAIN fs_dirs \cup {d} |-> IF x \in DOMAIN fs_dirs THEN fs_dirs[x] ELSE <<>>]

HashWithFile(file, h) ==
    [x \in DOMAIN fs_hash \cup {file} |-> IF x = file THEN h ELSE fs_hash[x]]

\* _download_from_transifex: one iteration of the loop over file_list; the
\* translation is fetched into the file, then the statistics.  Either request
\* may fail; the file exists once the first has succeeded.
DownFetchOne ==
    /\ pc = "down_fetch"
    /\ idx <= Len(file_list)
    /\ LET file == file_list[idx]
           lang == tx_lang_list[idx]
           resource_slug == Slugify(tx_res_list[idx])
           fetch == Call("get_translation", file, resource_slug, lang)
           stats == Call("get_statistics", <<>>, resource_slug, lang)
       IN  \E outcome \in {"done", "fetch failed", "stats failed"}, h \in Hashes :
              /\ outcome = "fetch failed" => h = "H1"
              /\ calls' = calls \o (IF outcome = "fetch failed" THEN <<fetch>>
                                    ELSE <<fetch, stats>>)
              /\ io' = io \o <<IoEvent("makedirs", Dirname(file))>>
                          \o (IF outcome = "fetch failed" THEN <<>>
                              ELSE <<IoEvent("write_file", file)>>)
              /\ fs_dirs' = IF outcome = "fetch failed" THEN DirsWithDir(Dirname(file))
                            ELSE DirsWithFile(file)
              /\ fs_hash' = IF outcome = "fetch failed" THEN fs_hash
                            ELSE HashWithFile(file, h)
              /\ IF outcome = "done"
                 THEN idx' = idx + 1 /\ UNCHANGED <<pc, error, exit_val>>
                 ELSE Raise("remote request failed") /\ UNCHANGED idx
    /\ UNCHANGED <<res_spec, list_file, cksum_store, args, remote,
                   file_list, tx_res_list, tx_lang_list, res_files, curr_res_names,
                   changed>>

\* write_download_list_file, after the loop of _download_from_transifex
DownWriteList ==
    /\ pc = "down_fetch"
    /\ idx > Len(file_list)
    /\ io' = io \o (IF Truthy(args.download_list_file)
                    THEN <<IoEvent("write_download_list", args.download_list_file)>>
                    ELSE <<>>)
    /\ pc' = "down_report"
    /\ UNCHANGED <<res_spec, fs_dirs, fs_hash, list_file, cksum_store, args, remote,
                   file_list, tx_res_list, tx_lang_list, res_files, curr_res_names,
                   idx, changed, calls, error, exit_val>>

\* exit_val that ignores num_changed
ExitValOf_alwaysOk(num_changed) == EXIT_OK

\* process_translated_files: exit_val from num_changed
ExitValOf(num_changed) == IF num_changed # 0 THEN EXIT_OK ELSE EXIT_OK_NOCHANGES

\* _display_results and the return of process_translated_files.  stats_all
\* holds a key for every entry of file_list once the loop has ended, so "no
\* stats" is never raised.
DownReport ==
    /\ pc = "down_report"
    /\ IF HashRaises(fs_hash, file_list)
       THEN /\ io' = io \o IoHash(file_list)
            /\ Raise("file does not exist")
            /\ UNCHANGED changed
       ELSE /\ io' = io \o IoHash(file_list) \o <<IoEvent("read_cksum", HashFile_none)>>
            /\ changed' = GetChangedAndNewResources(fs_hash, cksum_store,
                              args.cksumfolder, args.gitbranch, RepoName,
                              args.downloadpath, file_list, Suffix_none)
            /\ Return(ExitValOf(Len(changed')))
    /\ UNCHANGED <<res_spec, fs_dirs, fs_hash, list_file, cksum_store, args, remote,
                   file_list, tx_res_list, tx_lang_list, res_files, curr_res_names,
                   idx, calls>>

\* main(): mode cksumfile, write_cksumfile with its default suffix and mode
CksumfileWrite ==
    /\ pc = "cksumfile"
    /\ io' = io \o WriteCksumfileIo(Suffix_none, FALSE)
    /\ IF WriteCksumfileError(FALSE) # ""
       THEN Raise(WriteCksumfileError(FALSE)) /\ UNCHANGED cksum_store
       ELSE /\ cksum_store' = WriteCksumfileStore(Suffix_none, FALSE)
            /\ Return(EXIT_OK)
    /\ UNCHANGED <<res_spec, fs_dirs, fs_hash, list_file, args, remote,
                   file_list, tx_res_list, tx_lang_list, res_files, curr_res_names,
                   idx, changed, calls>>

Next ==
    \/ ArgsCheck
    \/ Construct
    \/ UpGetProjSlug
    \/ UpListResources
    \/ UpFilter
    \/ UpUploadOne
    \/ UpFinish
    \/ DownResolve
    \/ DownGetProjSlug
    \/ DownFetchOne
    \/ DownWriteList
    \/ DownReport
    \/ CksumfileWrite

----------------------------------------------------------------------------
(* Inputs of the model *)

MaxRules == 2    \* resource rules in the spec file
MaxLangs == 2    \* languages in the spec file
MaxFiles == 2    \* files in the resource directory
MaxList == 3     \* entries of a file list handed to the change detector alone
MaxLines == 2    \* lines of the explicit file list


PatWild == <<"p", "/", "*", ".", "p", "o">>
PatTempl == <<"%", "s", "/", "a", ".", "p", "o">>

\* Rules as the spec file lists them: [pathPattern, prefixOrSeparator, markerOrNull]
RulePool == << <<PatWild, <<"_">>, Null>>,
               <<PatWild, <<"_">>, <<"e", "n">>>>,
               <<PatWild, <<".">>, Null>>,
               <<PatTempl, <<>>, <<"e", "n">>>> >>

\* {"fr": null}, {"de": "d"}
LangPool == << <<<<"f", "r">>, Null>>, <<<<"d", "e">>, <<"d">>>> >>

NamePool == << <<"a", ".", "p", "o">>,
               <<"b", ".", "p", "o">>,
               <<"a", "_", "f", "r", ".", "p", "o">>,
               <<"a", "_", "e", "n", ".", "p", "o">> >>

\* The sequences of at most n elements of pool, and those without repetition
SeqsOf(pool, n) ==
    UNION {{[i \in 1..k |-> pool[f[i]]] : f \in [1..k -> 1..Len(pool)]} : k \in 0..n}
SeqsNoRep(pool, n) ==
    UNION {{[i \in 1..k |-> pool[f[i]]] :
              f \in {g \in [1..k -> 1..Len(pool)] :
                       \A i, j \in 1..k : i # j => g[i] # g[j]}} : k \in 0..n}

ResSpecs == [resources : SeqsOf(RulePool, MaxRules), langs : SeqsNoRep(LangPool, MaxLangs)]
Listings == SeqsNoRep(NamePool, MaxFiles)

EmptyMap == [k \in {} |-> <<>>]

\* The functions from a subset of D to R
PartialFns(D, R) == UNION {[X -> R] : X \in SUBSET D}

Snapshots(keys) ==
    {NoSnapshot, CorruptSnapshot} \cup {JsonSnapshot(m) : m \in PartialFns(keys, Hashes)}

\* The file of the templated rule's English variant, and its directory
EnFile == <<"c", "/", "e", "n", "/", "a", ".", "p", "o">>
\* The same for the templated rule whose extension Transifex has no type for
PatTemplX == <<"%", "s", "/", "a", ".", "x">>
EnFileX == <<"c", "/", "e", "n", "/", "a", ".", "x">>
EnDir == <<"c", "/", "e", "n">>

ListFile == <<"g">>
DownloadListFile == <<"l">>

FlowRulePool == << RulePool[1], RulePool[4], <<PatTemplX, <<>>, <<"e", "n">>>> >>
FlowNamePool == << NamePool[1], NamePool[2], NamePool[3] >>
LinePool == << <<"p", "/", "a", ".", "p", "o">>,
               <<"p", "/", "b", ".", "p", "o">>,
               <<"e", "n", "/", "a", ".", "p", "o">>,
               <<"e", "n", "/", "a", ".", "x">> >>

FlowResources == SeqsNoRep(FlowRulePool, MaxRules)
\* The extension of a file matters to the uploads only
PullResources == SeqsNoRep(<<FlowRulePool[1], FlowRulePool[2]>>, MaxRules)
FlowLangs == SeqsNoRep(LangPool, MaxLangs)
FlowListings == SeqsNoRep(FlowNamePool, MaxFiles)

\* The directories of a disk: the checksum folder, the resource directory
\* with its listing (<<Null>> for no such directory), the directory of EnFile
DirsOf(listing, en) ==
    [d \in {CksumFolder} \cup (IF listing = <<Null>> THEN {} ELSE {ResDir})
            \cup (IF en THEN {EnDir} ELSE {}) |->
        IF d = ResDir THEN listing
        ELSE IF d = EnDir THEN << <<"a", ".", "p", "o">>, <<"a", ".", "x">> >>
        ELSE <<>>]

FilesOf(listing, en) ==
    (IF listing = <<Null>> THEN {} ELSE {PathJoin(ResDir, listing[i]) : i \in 1..Len(listing)})
        \cup (IF en THEN {EnFile, EnFileX} ELSE {})

\* The disks of the model: every file of the resource directory with every
\* digest, EnFile present (digest H1) or not
Disks ==
    UNION {{[dirs |-> DirsOf(l, en), hash |-> h] :
               h \in {g \in [FilesOf(l, en) -> Hashes] :
                         en => g[EnFile] = "H1" /\ g[EnFileX] = "H1"}} :
           l \in FlowListings \cup {<<Null>>}, en \in BOOLEAN}

\* The disks with one digest for all files and EnFile present
PlainDisks ==
    {[dirs |-> DirsOf(l, TRUE), hash |-> [f \in FilesOf(l, TRUE) |-> "H1"]] :
        l \in FlowListings \cup {<<Null>>}}

Stores(english, none) ==
    {[n \in {HashFile_english, HashFile_none} |-> IF n = HashFile_english THEN e ELSE x] :
        e \in english, x \in none}

EnglishSnapshots ==
    {NoSnapshot} \cup {JsonSnapshot(m) : m \in PartialFns({LinePool[1], LinePool[2]}, Hashes)}

TranslatedSnapshots ==
    {NoSnapshot,
     JsonSnapshot([k \in {<<"p", "/", "a", "_", "f", "r", ".", "p", "o">>} |-> "H1"]),
     JsonSnapshot([k \in {<<"p", "/", "a", "_", "f", "r", ".", "p", "o">>,
                          <<"f", "r", "/", "a", ".", "p", "o">>} |-> "H1"])}

Remotes ==
    {[exists |-> FALSE, names |-> {}]}
        \cup {[exists |-> TRUE, names |-> N] : N \in SUBSET {NamePool[1]}}

Args(mode, filelist, filehash, cksumfolder, gitbranch, download_list_file) ==
    [mode |-> mode, filelist |-> filelist, filehash |-> filehash,
     cksumfolder |-> cksumfolder, gitbranch |-> gitbranch, downloadpath |-> Null,
     download_list_file |-> download_list_file]

\* The command lines of the model: every combination of mode and flags
ArgsPool ==
    {Args(m, fl, fh, ckf, gb, dlf) :
        m \in {MODE_UP, MODE_DOWN, MODE_CKSUMFILE},
        fl \in {Null, <<>>, AllStr, ListFile}, fh \in BOOLEAN,
        ckf \in {Null, CksumFolder}, gb \in {Null, GitBranch},
        dlf \in {Null, DownloadListFile}}

\* The environments a command line is run in.  The four plain command lines
\* (-m up -fh, -m up -fl, -m down, -m cksumfile) meet every environment of
\* their flow, every other command line meets one disk, with and without
\* the checksum folder.
Kind(a) ==
    IF a.download_list_file # Null /\ a.mode # MODE_DOWN THEN "none"
    ELSE IF a = Args(MODE_UP, Null, TRUE, CksumFolder, GitBranch, Null) THEN "up -fh"
    ELSE IF a \in {Args(MODE_UP, fl, FALSE, Null, Null, Null) : fl \in {AllStr, ListFile}}
         THEN "up -fl"
    ELSE IF a \in {Args(MODE_DOWN, Null, FALSE, CksumFolder, GitBranch, dlf) :
                      dlf \in {Null, DownloadListFile}}
         THEN "down"
    ELSE IF a = Args(MODE_CKSUMFILE, Null, FALSE, CksumFolder, GitBranch, Null)
         THEN "cksumfile"
    ELSE IF a.download_list_file # Null THEN "none"
    ELSE "flags"

OneDisk == [dirs |-> DirsOf(<<NamePool[1]>>, FALSE),
            hash |-> [f \in FilesOf(<<NamePool[1]>>, FALSE) |-> "H1"]]

WithoutCksumFolder(d) ==
    [dirs |-> [x \in DOMAIN d.dirs \ {CksumFolder} |-> d.dirs[x]], hash |-> d.hash]

ResSpecsFor(a) ==
    CASE Kind(a) = "up -fh" ->
            {[resources |-> r, langs |-> <<LangPool[1]>>] : r \in FlowResources}
      [] Kind(a) = "up -fl" ->
            {[resources |-> r, langs |-> <<LangPool[1]>>] : r \in FlowResources}
      [] Kind(a) \in {"down", "cksumfile"} ->
            {[resources |-> r, langs |-> l] : r \in PullResources, l \in FlowLangs}
      [] Kind(a) = "flags" -> {[resources |-> <<RulePool[1]>>, langs |-> <<LangPool[1]>>]}
      [] OTHER -> {}

DisksFor(a) ==
    CASE Kind(a) = "up -fh" -> Disks
      [] Kind(a) \in {"up -fl", "down", "cksumfile"} -> PlainDisks
      [] OTHER -> {OneDisk, WithoutCksumFolder(OneDisk)}

ListFilesFor(a) ==
    IF Kind(a) = "up -fl" /\ a.filelist = ListFile THEN SeqsOf(LinePool, MaxLines)
    ELSE IF a.filelist = ListFile THEN {<<LinePool[1]>>}
    ELSE {<<>>}

StoresFor(a) ==
    CASE Kind(a) = "up -fh" -> Stores(EnglishSnapshots, {NoSnapshot})
      [] Kind(a) = "up -fl" ->
            Stores({NoSnapshot, JsonSnapshot([k \in {LinePool[1]} |-> "H2"])}, {NoSnapshot})
      [] Kind(a) \in {"down", "cksumfile"} -> Stores({NoSnapshot}, TranslatedSnapshots)
      [] OTHER -> Stores({NoSnapshot}, {NoSnapshot})

RemotesFor(a) ==
    CASE Kind(a) \in {"up -fh", "up -fl"} -> Remotes
      [] Kind(a) = "down" -> {x \in Remotes : x.names = {}}
      [] OTHER -> {[exists |-> TRUE, names |-> {}]}

Init ==
    /\ args \in ArgsPool
    /\ res_spec \in ResSpecsFor(args)
    /\ fs_dirs \in {d.dirs : d \in DisksFor(args)}
    /\ fs_hash \in {d.hash : d \in {x \in DisksFor(args) : x.dirs = fs_dirs}}
    /\ list_file \in ListFilesFor(args)
    /\ cksum_store \in StoresFor(args)
    /\ remote \in RemotesFor(args)
    /\ pc = "start"
    /\ file_list = <<>> /\ tx_res_list = <<>> /\ tx_lang_list = <<>>
    /\ res_files = <<>> /\ curr_res_names = {} /\ idx = 0
    /\ changed = <<>> /\ calls = <<>> /\ io = <<>>
    /\ error = ""
    /\ exit_val = NoExit

Spec == Init /\ [][Next]_vars

----------------------------------------------------------------------------
(* The resolver alone: get() on every spec and directory listing *)

InitResolve ==
    /\ res_spec \in ResSpecs
    /\ fs_dirs \in {[d \in {ResDir} |-> l] : l \in Listings}
    /\ fs_hash = EmptyMap
    /\ list_file = <<>>
    /\ cksum_store = EmptyMap
    /\ args = [mode |-> "resolve"]
    /\ remote = [exists |-> TRUE, names |-> {}]
    /\ pc = "start"
    /\ file_list = <<>> /\ tx_res_list = <<>> /\ tx_lang_list = <<>>
    /\ res_files = <<>> /\ curr_res_names = {} /\ idx = 0
    /\ changed = <<>> /\ calls = <<>> /\ io = <<>>
    /\ error = ""
    /\ exit_val = NoExit

Resolve(english_mode) ==
    /\ pc = "start"
    /\ LET r == Get(ClonePath, res_spec, fs_dirs, english_mode)
       IN  /\ file_list' = r.file_list
           /\ tx_res_list' = r.tx_res_list
           /\ tx_lang_list' = r.tx_lang_list
    /\ pc' = IF english_mode THEN "english" ELSE "translated"
    /\ UNCHANGED <<res_spec, fs_dirs, fs_hash, list_file, cksum_store, args, remote,
                   res_files, curr_res_names, idx, changed, calls, io, error, exit_val>>

ResolveEnglish == Resolve(TRUE)
ResolveTranslated == Resolve(FALSE)

NextResolve == ResolveEnglish \/ ResolveTranslated

SpecResolve == InitResolve /\ [][NextResolve]_vars

----------------------------------------------------------------------------
(* The change detector alone: every file list, disk state and snapshot *)


DetectFiles == << <<"c", "/", "p", "/", "a", ".", "p", "o">>,
                  <<"c", "/", "p", "/", "b", ".", "p", "o">>,
                  <<"c", "/", "e", "n", "/", "a", ".", "p", "o">> >>


\* args as args_check leaves them for a run that reaches the detector
DetectArgs(suffix) ==
    [mode |-> "detect", cksumfolder |-> CksumFolder, gitbranch |-> GitBranch,
     downloadpath |-> ClonePath, suffix |-> suffix]

InitDetect ==
    /\ res_spec = [resources |-> <<>>, langs |-> <<>>]
    /\ fs_dirs = EmptyMap
    /\ fs_hash \in PartialFns(Range(DetectFiles), Hashes)
    /\ list_file = <<>>
    /\ \E suffix \in {Suffix_english, Suffix_none} :
          /\ args = DetectArgs(suffix)
          /\ \E snap \in Snapshots({RelPath(ClonePath, f) : f \in Range(DetectFiles)}) :
                cksum_store =
                    [n \in {HashFile_english, HashFile_none} |->
                        IF n = GetHashFilename(CksumFolder, GitBranch, RepoName, suffix)
                        THEN snap ELSE NoSnapshot]
    /\ remote = [exists |-> TRUE, names |-> {}]
    /\ pc = "start"
    /\ file_list \in SeqsOf(DetectFiles, MaxList)
    /\ tx_res_list = <<>> /\ tx_lang_list = <<>>
    /\ res_files = <<>> /\ curr_res_names = {} /\ idx = 0
    /\ changed = <<>> /\ calls = <<>> /\ io = <<>>
    /\ error = ""
    /\ exit_val = NoExit

Detect ==
    /\ pc = "start"
    /\ ~HashRaises(fs_hash, file_list)
    /\ changed' = GetChangedAndNewResources(fs_hash, cksum_store, args.cksumfolder,
                      args.gitbranch, RepoName, args.downloadpath, file_list, args.suffix)
    /\ pc' = "detected"
    /\ UNCHANGED <<res_spec, fs_dirs, fs_hash, list_file, cksum_store, args, remote,
                   file_list, tx_res_list, tx_lang_list, res_files, curr_res_names,
                   idx, calls, io, error, exit_val>>

DetectFileMissing ==
    /\ pc = "start"
    /\ HashRaises(fs_hash, file_list)
    /\ pc' = "raised"
    /\ error' = "file does not exist"
    /\ UNCHANGED <<res_spec, fs_dirs, fs_hash, list_file, cksum_store, args, remote,
                   file_list, tx_res_list, tx_lang_list, res_files, curr_res_names,
                   idx, changed, calls, io, exit_val>>

NextDetect == Detect \/ DetectFileMissing

SpecDetect == InitDetect /\ [][NextDetect]_vars

----------------------------------------------------------------------------
(* Properties of the change detector *)

\* The mapping a snapshot file stands for: a missing or corrupt file is empty
SnapshotMap(snap) == IF snap.kind = "json" THEN snap.map ELSE <<>>

\* f lies under the clone path at the relative path rel
IsRelOf(rel, f) == f = ClonePath \o <<"/">> \o rel

\* C2: the change detector returns exactly the relative paths of the listed
\* files that are absent from the snapshot or present with another hash, in
\* strictly ascending lexicographic order (so no path is repeated); an
\* unchanged path and a snapshot key outside the file list are never returned.
C2_DetectorExact ==
    pc = "detected" =>
        LET previous == SnapshotMap(cksum_store[GetHashFilename(CksumFolder, GitBranch,
                                                                RepoName, args.suffix)])
            rels == DOMAIN previous \cup Range(changed)
                        \cup {SubSeq(f, 3, Len(f)) : f \in Range(file_list)}
        IN  /\ \A rel \in rels :
                  rel \in Range(changed) <=>
                      \E f \in Range(file_list) :
                          /\ IsRelOf(rel, f)
                          /\ (rel \notin DOMAIN previous \/ previous[rel] # fs_hash[f])
            /\ \A i, j \in 1..Len(changed) : i < j => StrLess(changed[i], changed[j])

\* C2 witness: two changed-or-new paths that the sort had to swap, next to a
\* listed file whose hash equals the snapshot's
C2_Witness ==
    /\ pc = "detected"
    /\ Len(changed) = 2
    /\ \E i, j, k \in 1..Len(file_list) :
          /\ i < j
          /\ IsRelOf(changed[2], file_list[i])
          /\ IsRelOf(changed[1], file_list[j])
          /\ \E rel \in DOMAIN SnapshotMap(cksum_store[HashFile_english]) :
                /\ IsRelOf(rel, file_list[k])
                /\ SnapshotMap(cksum_store[HashFile_english])[rel] = fs_hash[file_list[k]]
                /\ args.suffix = Suffix_english

----------------------------------------------------------------------------
(* Properties of the resolver *)

\* s ends with the literal string t
EndsWith(s, t) == Len(t) <= Len(s) /\ SubSeq(s, Len(s) - Len(t) + 1, Len(s)) = t

\* The exclusion set: 'pig_latin' plus every configured transifex code
ExclusionSet == {PigLatin} \cup {res_spec.langs[i][1] : i \in 1..Len(res_spec.langs)}

\* The base name of filename ends with the separator and an excluded code
EndsExcluded(filename, separator) ==
    \E code \in ExclusionSet : EndsWith(SplitExt(filename)[1], separator \o code)

\* The English files the claim describes for one rule
EnglishExpected(item) ==
    IF IsTemplated(item)
    THEN {PathJoin(ClonePath, Subst(item[1], StrOf(item[3])))}
    ELSE {PathJoin(ResDir, filename) : filename \in
             {n \in Range(fs_dirs[ResDir]) :
                 /\ FnMatch(n, PathSplit(FullFilespec(ClonePath, item))[2])
                 /\ ~EndsExcluded(n, item[2])}}

\* C3 (as claimed): English-mode resolution returns, for every wildcard rule,
\* exactly the files that match the glob and whose base name does not end
\* with the separator followed by an excluded code.
C3_EnglishExact ==
    pc = "english" =>
        Range(file_list) = UNION {EnglishExpected(res_spec.resources[k]) :
                                     k \in 1..Len(res_spec.resources)}

\* The English candidates of a wildcard rule, as the resolver finds them
Candidates(item) ==
    GetEnglishFiles(fs_dirs, LangExclude(res_spec), FullFilespec(ClonePath, item), item[2])

RECURSIVE TranslatedCount(_)
TranslatedCount(k) ==
    IF k > Len(res_spec.resources) THEN 0
    ELSE (IF IsTemplated(res_spec.resources[k]) THEN Len(res_spec.langs)
          ELSE Len(Candidates(res_spec.resources[k])) * Len(res_spec.langs))
         + TranslatedCount(k + 1)

\* The native code of a language, the transifex code when none is given
NativeOf(lang) == IF lang[2] = Null \/ lang[2] = <<>> THEN lang[1] ELSE lang[2]

\* Entry (path, resource, code) is the translation unit of rule item and
\* language lang
IsUnitOf(path, resource, code, item, lang) ==
    /\ code = lang[1]
    /\ IF IsTemplated(item)
       THEN /\ resource = Basename(item[1])
            /\ \E a \in 1..(Len(item[1]) - 1) :
                  LET pre == SubSeq(item[1], 1, a - 1)
                      post == SubSeq(item[1], a + 2, Len(item[1]))
                  IN  /\ item[1] = pre \o <<"%", "s">> \o post
                      /\ path = ClonePath \o <<"/">> \o pre \o item[2]
                                    \o NativeOf(lang) \o post
       ELSE \E e \in Range(Candidates(item)) :
               /\ resource = Basename(e)
               /\ Dirname(path) = Dirname(e)
               /\ IF item[3] # Null /\ item[3] # <<>>
                  THEN \E stem \in {SubSeq(Basename(e), 1, n) : n \in 0..Len(Basename(e))} :
                          /\ stem \o item[3] = SplitExt(Basename(e))[1]
                          /\ Basename(path) = stem \o NativeOf(lang) \o SplitExt(e)[2]
                  ELSE Basename(path) = SplitExt(Basename(e))[1] \o item[2]
                                            \o NativeOf(lang) \o SplitExt(e)[2]

\* C4: in translation mode the three sequences have the same length, one
\* entry per (templated rule, language) and per (wildcard rule, English
\* candidate, language), and entry i pairs the path translated from the
\* English file named resourceNames[i] with the transifex code
\* languageCodes[i], the native code being the one inside the path.
C4_TripleAligned ==
    pc = "translated" =>
        /\ Len(file_list) = Len(tx_res_list)
        /\ Len(file_list) = Len(tx_lang_list)
        /\ Len(file_list) = TranslatedCount(1)
        /\ \A i \in 1..Len(file_list) :
              \E k \in 1..Len(res_spec.resources), l \in 1..Len(res_spec.langs) :
                  IsUnitOf(file_list[i], tx_res_list[i], tx_lang_list[i],
                           res_spec.resources[k], res_spec.langs[l])
        /\ \A k \in 1..Len(res_spec.resources), l \in 1..Len(res_spec.langs) :
              \A e \in (IF IsTemplated(res_spec.resources[k]) THEN {<<>>}
                        ELSE Range(Candidates(res_spec.resources[k]))) :
                  \E i \in 1..Len(file_list) :
                      /\ IsUnitOf(file_list[i], tx_res_list[i], tx_lang_list[i],
                                  res_spec.resources[k], res_spec.langs[l])
                      /\ (e # <<>> => tx_res_list[i] = Basename(e))

\* C4 witness: a templated and a wildcard rule with a candidate, and a
\* language whose native code differs from its transifex code
C4_Witness ==
    /\ pc = "translated"
    /\ \E k1, k2 \in 1..Len(res_spec.resources) :
          /\ IsTemplated(res_spec.resources[k1])
          /\ ~IsTemplated(res_spec.resources[k2])
          /\ Candidates(res_spec.resources[k2]) # <<>>
    /\ \E l \in 1..Len(res_spec.langs) : NativeOf(res_spec.langs[l]) # res_spec.langs[l][1]
    /\ Len(res_spec.langs) = 2
    /\ Len(file_list) >= 4

----------------------------------------------------------------------------
(* Properties of the flows *)

ModeErrorMsg == "must supply one of either -fl or -fh"

IsPush == args.mode = MODE_UP
IsPull == args.mode = MODE_DOWN
HashCompare == args.filehash
ExplicitList == Truthy(args.filelist)

IsUpload(c) == c.op \in {"update_source_translation", "new_resource"}
IsFetch(c) == c.op = "get_translation"

\* The upload calls and the download calls issued so far, in order
Uploads == SelectSeq(calls, IsUpload)
Fetches == SelectSeq(calls, IsFetch)

IoOps == {io[i].op : i \in 1..Len(io)}

\* The entries of the resolved list that differ from the persisted snapshot
\* (suffix none) or are missing from it
ChangedOrNewEntries ==
    {i \in 1..Len(file_list) :
        \E rel \in {RelPath(ClonePath, file_list[i])} :
           \/ rel \notin DOMAIN SnapshotMap(cksum_store[HashFile_none])
           \/ SnapshotMap(cksum_store[HashFile_none])[rel] # fs_hash[file_list[i]]}

\* C5: a pull that completes returns EXIT_OK_NOCHANGES exactly when no
\* downloaded entry differs from the persisted snapshot or is missing from it,
\* and EXIT_OK when at least one does.
C5_NoChangesExit ==
    (pc = "done" /\ IsPull /\ error = "") =>
        /\ exit_val = EXIT_OK_NOCHANGES <=> ChangedOrNewEntries = {}
        /\ exit_val = EXIT_OK <=> ChangedOrNewEntries # {}

C5_Witness ==
    /\ pc = "done" /\ IsPull /\ error = ""
    /\ exit_val = EXIT_OK_NOCHANGES
    /\ Len(Fetches) = 2
    /\ DOMAIN SnapshotMap(cksum_store[HashFile_none]) # {}

\* C6: no step of a pull or of a push in explicit-list mode changes the
\* persisted snapshots, whether the invocation succeeds or fails, and a pull
\* that gets past its downloads has fetched every resolved entry, in order,
\* whatever the snapshot holds.
C6_SnapshotFrame ==
    /\ [][(IsPull \/ (IsPush /\ ~HashCompare)) => cksum_store' = cksum_store]_vars
    /\ []((IsPull \/ (IsPush /\ ~HashCompare)) => "write_cksum" \notin IoOps)
    /\ []((IsPull /\ (pc = "down_report" \/ (pc = "done" /\ error = ""))) =>
             /\ Len(Fetches) = Len(file_list)
             /\ \A i \in 1..Len(file_list) : Fetches[i].file = file_list[i])

C6_Witness ==
    /\ pc = "done" /\ IsPush /\ ~HashCompare /\ error = ""
    /\ Len(Uploads) = 2
    /\ cksum_store[HashFile_english].kind = "json"

\* C7: a push with neither or both filter modes ends in args_check with the
\* configuration error, with no remote call issued and no snapshot read or
\* written; a push with exactly one filter mode never raises that error.
C7_ModeCheck ==
    /\ [](IsPush =>
            IF ExplicitList = HashCompare
            THEN /\ calls = <<>>
                 /\ IoOps \cap {"read_cksum", "write_cksum"} = {}
                 /\ pc \in {"start", "done"}
                 /\ pc = "done" => error = ModeErrorMsg /\ exit_val = EXIT_ERROR
            ELSE error # ModeErrorMsg)
    /\ [][(IsPush /\ ExplicitList = HashCompare) => cksum_store' = cksum_store]_vars

C7_Witness ==
    /\ IsPush /\ ExplicitList /\ HashCompare
    /\ Truthy(args.cksumfolder) /\ Truthy(args.gitbranch)
    /\ pc = "done" /\ error = ModeErrorMsg

\* The snapshot a wholesale write after this push holds: every resolved
\* English file, by its path below the clone path, with its current hash
IsFreshSnapshot(m) ==
    /\ \A i \in 1..Len(file_list) :
          /\ RelPath(ClonePath, file_list[i]) \in DOMAIN m
          /\ m[RelPath(ClonePath, file_list[i])] = fs_hash[file_list[i]]
    /\ \A rel \in DOMAIN m : \E i \in 1..Len(file_list) : IsRelOf(rel, file_list[i])

\* C1: after a push in hash-compare mode that returns EXIT_OK, the snapshot
\* persisted under suffix "english" maps exactly the files of the English-mode
\* resolution to their current hashes, with no stale and no missing key, also
\* when no file was changed or new.
C1_SnapshotFresh ==
    (pc = "done" /\ IsPush /\ HashCompare /\ error = "" /\ exit_val = EXIT_OK) =>
        IsFreshSnapshot(SnapshotMap(cksum_store[HashFile_english]))

\* The first position of x in s
IndexIn(s, x) == CHOOSE i \in 1..Len(s) : s[i] = x /\ \A j \in 1..(i - 1) : s[j] # x

\* The calls of a pull after the project check: for each resolved entry in
\* turn the translation fetch, then the statistics fetch
PullCallsInOrder ==
    \A k \in 2..Len(calls) :
        /\ k \div 2 <= Len(file_list)
        /\ calls[k].lang = tx_lang_list[k \div 2]
        /\ calls[k].name = Slugify(tx_res_list[k \div 2])
        /\ IF k % 2 = 0
           THEN calls[k].op = "get_translation" /\ calls[k].file = file_list[k \div 2]
           ELSE calls[k].op = "get_statistics"

\* C8 as stated: the uploads of a push follow the order of the resolved file
\* list in both filter modes, and the calls of a pull go through the resolved
\* list in order, fetch before statistics.
C8_ResolvedOrder ==
    /\ IsPush => \A i, j \in 1..Len(Uploads) :
                    i < j => IndexIn(file_list, Uploads[i].file)
                                <= IndexIn(file_list, Uploads[j].file)
    /\ IsPull => PullCallsInOrder

\* The lines of the list file that name a resolved English file, as full
\* paths, in the order of the lines
ListedResources ==
    LET Resolved(f) == f \in Range(file_list)
    IN  SelectSeq([i \in 1..Len(list_file) |-> ClonePath \o <<"/">> \o list_file[i]],
                  Resolved)

\* C8 amended: the uploads of a push follow the order of the filtered upload
\* list: the lines of the list file in explicit-list mode (the resolved list
\* for "all"), ascending relative paths in hash-compare mode; the calls of a
\* pull go through the resolved list in order, fetch before statistics.
C8_FilteredOrder ==
    /\ (IsPush /\ ~HashCompare /\ args.filelist = AllStr) =>
          \A i \in 1..Len(Uploads) :
             i <= Len(file_list) /\ Uploads[i].file = file_list[i]
    /\ (IsPush /\ ~HashCompare /\ args.filelist # AllStr) =>
          \A i \in 1..Len(Uploads) :
             i <= Len(ListedResources) /\ Uploads[i].file = ListedResources[i]
    /\ (IsPush /\ HashCompare) =>
          \A i, j \in 1..Len(Uploads) :
             i < j => StrLess(RelPath(ClonePath, Uploads[i].file),
                              RelPath(ClonePath, Uploads[j].file))
    /\ IsPull => PullCallsInOrder

C8_Witness ==
    /\ pc = "done" /\ IsPush /\ ~HashCompare /\ error = ""
    /\ Len(Uploads) = 2
    /\ IndexIn(file_list, Uploads[1].file) > IndexIn(file_list, Uploads[2].file)

\* C9: when the project does not exist, the flow ends with that error before
\* any file I/O: nothing listed, hashed, created, written, uploaded or
\* downloaded, no snapshot read or written, no download list written.
C9_NoIoBeforeProjectCheck ==
    error = "project does not exist" =>
        /\ IoOps \cap {"listdir", "hash", "makedirs", "write_file", "read_list",
                       "read_cksum", "write_cksum", "write_download_list"} = {}
        /\ Uploads = <<>> /\ Fetches = <<>>

\* C10: every upload updates when a resource of the file's basename is on the
\* service at that moment and creates otherwise, so no name is created twice
\* in one push.
C10_CreateOnlyWhenAbsent ==
    /\ \A i \in 1..Len(Uploads) :
          (Uploads[i].op = "update_source_translation") <=> Uploads[i].existed
    /\ \A i, j \in 1..Len(Uploads) :
          (i < j /\ Uploads[i].op = "new_resource" /\ Uploads[j].op = "new_resource")
             => Uploads[i].name # Uploads[j].name

\* The extension of f, after the last dot of its name, has no Transifex type
UnknownExtension(f) ==
    \A n \in 1..Len(f) :
        (f[n] = "." /\ \A m \in (n + 1)..Len(f) : f[m] \notin {".", "/"})
            => SubSeq(f, n + 1, Len(f)) \notin I18nExtensions

\* The push ended inside the upload loop, at position idx of the filtered list
FailedAtFile == pc = "done" /\ IsPush /\ idx \in 1..Len(res_files)

\* The resolved English files the persisted snapshot (suffix english) does
\* not hold with their current hash
StillChanged ==
    {f \in Range(file_list) :
        \/ RelPath(ClonePath, f) \notin DOMAIN SnapshotMap(cksum_store[HashFile_english])
        \/ SnapshotMap(cksum_store[HashFile_english])[RelPath(ClonePath, f)] # fs_hash[f]}

\* C11: when the k-th filtered file of a push fails, on its extension or on
\* the remote request, the invocation ends with EXIT_ERROR; the upload calls
\* are those of the files before k, in order, and the failed request for k
\* itself, none for a later file; the files before k are on the service; no
\* snapshot is written, so in hash-compare mode the filtered files are still
\* the changed ones; and the snapshot store changes in no step but the one
\* that ends a push with EXIT_OK.
C11_FailedUploadAborts ==
    /\ [](FailedAtFile =>
            /\ exit_val = EXIT_ERROR
            /\ error = IF UnknownExtension(res_files[idx])
                       THEN "unrecognised extension in filename"
                       ELSE "remote request failed"
            /\ Len(Uploads) = IF UnknownExtension(res_files[idx]) THEN idx - 1 ELSE idx
            /\ \A i \in 1..Len(Uploads) : Uploads[i].file = res_files[i]
            /\ \A i \in 1..(idx - 1) : Basename(res_files[i]) \in remote.names
            /\ "write_cksum" \notin IoOps
            /\ HashCompare => Range(res_files) = StillChanged)
    /\ [][(IsPush /\ cksum_store' # cksum_store) =>
             (pc' = "done" /\ error' = "" /\ exit_val' = EXIT_OK)]_vars

C11_Witness ==
    /\ FailedAtFile /\ HashCompare
    /\ idx = 2 /\ Len(res_files) = 3
    /\ DOMAIN SnapshotMap(cksum_store[HashFile_english]) # {}

C11_WitnessExtension ==
    /\ FailedAtFile /\ ~HashCompare
    /\ idx = 2
    /\ UnknownExtension(res_files[2])

====
